---- MODULE Spec2Model ----
(***************************************************************************)
(* A model of the portfolio analytics engine of the Financial-Tracker      *)
(* repository (src/financial_analyzer.py): calculate_returns,              *)
(* calculate_risk_metrics, analyze_instrument and analyze_portfolio.       *)
(*                                                                         *)
(* Numbers.  The code computes with IEEE doubles (numpy.float64).  A       *)
(* number is modelled as an exact rational or one of the special values    *)
(* the code can produce: a division by zero does not raise under numpy, it *)
(* yields inf or nan.  A value is a record                                 *)
(*     [k |-> "fin", n |-> numerator, d |-> denominator]   (d > 0, reduced)*)
(*     [k |-> "inf", n |-> 1 or -1, d |-> 1]                               *)
(*     [k |-> "nan", n |-> 0, d |-> 1]                                     *)
(* so that structural equality of finite values is numeric equality.       *)
(***************************************************************************)
EXTENDS Integers, Sequences, FiniteSets, TLC

VARIABLES
    \* ---- analyze_portfolio (one call) ----
    investments_df,       \* the input frame: a sequence of holding rows
    pc,                   \* "start" | "loop" | "done" | "raised"
    idx,                  \* number of rows the for loop has consumed
    total_invested,       \* line 248
    total_current_value,  \* line 249, accumulated at line 266
    portfolio_data,       \* line 251, appended at line 267
    portfolio,            \* the returned dict (line 272), << >> before return
    calls,                \* history: per consumed row, what happened to it and
                          \* which methods analyze_instrument called for it
    \* ---- the calculators called on their own ----
    df,                   \* the frame given to the calculator
    current_investment,   \* the amount given to calculate_returns
    calc_pc,              \* "ready" | "returned" | "raised"
    returns,              \* the dict calculate_returns returned
    risk_metrics,         \* the dict calculate_risk_metrics returned
    history,              \* the calculator calls made on df, with their outputs
    df_given,             \* history: the frame as it was before any call
    \* ---- the SQLite store of DatabaseManager (src/database.py) ----
    users,                \* the committed rows of table users
    investments,          \* the committed rows of table investments
    user_seq,             \* AUTOINCREMENT: the largest user_id ever assigned
    investment_seq,       \* AUTOINCREMENT: the largest investment_id ever assigned
    now,                  \* CURRENT_TIMESTAMP, in seconds
    session,              \* per session: the create_user call it is in, if any
    write_lock,           \* who holds the write lock of the database file
    unclosed,             \* connections a returned operation has left open
    db_log                \* history: the operations that have returned

portfolioVars == <<investments_df, pc, idx, total_invested, total_current_value,
                   portfolio_data, portfolio, calls>>
calcVars == <<df, current_investment, calc_pc, returns, risk_metrics, history, df_given>>
dbVars == <<users, investments, user_seq, investment_seq, now, session, write_lock,
            unclosed, db_log>>
vars == <<investments_df, pc, idx, total_invested, total_current_value,
          portfolio_data, portfolio, calls, df, current_investment, calc_pc, returns,
          risk_metrics, history, df_given, users, investments, user_seq,
          investment_seq, now, session, write_lock, unclosed, db_log>>

(***************************************************************************)
(* Bounds of the model.                                                    *)
(***************************************************************************)
MaxHoldings == 2      \* rows of investments_df
MaxLen == 3           \* points of a price series
MaxCalls == 3         \* calculator calls made on one frame
MaxOps == 3           \* DatabaseManager operations started

(***************************************************************************)
(* Arithmetic.                                                             *)
(***************************************************************************)
Abs(x) == IF x < 0 THEN -x ELSE x

Sgn(x) == IF x < 0 THEN -1 ELSE IF x > 0 THEN 1 ELSE 0

RECURSIVE GCD(_, _)
GCD(a, b) == IF b = 0 THEN a ELSE GCD(b, a % b)

\* the rational n/d, d > 0, in lowest terms
Rat(n, d) ==
    LET g == GCD(Abs(n), d)
    IN  [k |-> "fin", n |-> n \div g, d |-> d \div g]

NaN == [k |-> "nan", n |-> 0, d |-> 1]

Inf(s) == [k |-> "inf", n |-> s, d |-> 1]

Zero == Rat(0, 1)

Hundred == Rat(100, 1)

IsFin(x) == x.k = "fin"

\* x > 0 as numpy compares: False for nan
Positive(x) == x.k # "nan" /\ x.n > 0

FNeg(x) == [x EXCEPT !.n = -x.n]

FAdd(x, y) ==
    IF x.k = "nan" \/ y.k = "nan" THEN NaN
    ELSE IF x.k = "inf" /\ y.k = "inf" THEN (IF x.n = y.n THEN x ELSE NaN)
    ELSE IF x.k = "inf" THEN x
    ELSE IF y.k = "inf" THEN y
    ELSE Rat(x.n * y.d + y.n * x.d, x.d * y.d)

FSub(x, y) == FAdd(x, FNeg(y))

FMul(x, y) ==
    IF x.k = "nan" \/ y.k = "nan" THEN NaN
    ELSE IF x.k = "inf" \/ y.k = "inf"
         THEN (IF x.n = 0 \/ y.n = 0 THEN NaN ELSE Inf(Sgn(x.n) * Sgn(y.n)))
    ELSE Rat(x.n * y.n, x.d * y.d)

\* numpy true division: x/0 is inf (nan for 0/0), never an exception
FDiv(x, y) ==
    IF x.k = "nan" \/ y.k = "nan" THEN NaN
    ELSE IF x.k = "inf" THEN (IF y.k = "inf" THEN NaN
                              ELSE Inf(x.n * (IF y.n < 0 THEN -1 ELSE 1)))
    ELSE IF y.k = "inf" THEN Zero
    ELSE IF y.n = 0 THEN (IF x.n = 0 THEN NaN ELSE Inf(Sgn(x.n)))
    ELSE Rat(x.n * y.d * Sgn(y.n), x.d * Abs(y.n))

\* n/d (d > 0) rounded to the nearest integer, ties to even (numpy's rint)
RoundHalfEven(n, d) ==
    LET q == n \div d
        r == n % d
    IN  IF 2 * r < d THEN q
        ELSE IF 2 * r > d THEN q + 1
        ELSE IF q % 2 = 0 THEN q ELSE q + 1

\* round(x, 2) of a numpy.float64: rint(x * 100) / 100; inf and nan pass through.
\* (The whole part of x is set aside before scaling: 100 times an even or odd
\* whole number is even, so the tie rule is unchanged.)
Round2(x) ==
    IF x.k # "fin" THEN x
    ELSE Rat(100 * (x.n \div x.d) + RoundHalfEven(100 * (x.n % x.d), x.d), 100)

(***************************************************************************)
(* Frames.  A price frame is [rows |-> <<[date, Close], ...>>, columns].   *)
(* A date is a day number, or NaT (what pd.to_datetime(errors='coerce')    *)
(* leaves for an unparsable date; sort_values puts NaT rows last).         *)
(***************************************************************************)
NaT == -1

Frame(rows) == [rows |-> rows, columns |-> {"date", "Close"}]

EmptyFrame == [rows |-> << >>, columns |-> {}]

\* df.empty
IsEmpty(f) == Len(f.rows) = 0

Last(s) == s[Len(s)]

\* a dict is a function from its keys; d.get(key, default)
Get(d, key, default) == IF key \in DOMAIN d THEN d[key] ELSE default

EmptyDict == << >>

\* a slip of lines 143 and 146: the day counts of 1_month and 1_year exchanged
Periods_swapped ==
    << [name |-> "1_month",  days |-> 365,  ret |-> "return_1_month",  cagr |-> "cagr_1_month"],
       [name |-> "3_months", days |-> 90,   ret |-> "return_3_months", cagr |-> "cagr_3_months"],
       [name |-> "6_months", days |-> 180,  ret |-> "return_6_months", cagr |-> "cagr_6_months"],
       [name |-> "1_year",   days |-> 30,   ret |-> "return_1_year",   cagr |-> "cagr_1_year"],
       [name |-> "3_years",  days |-> 1095, ret |-> "return_3_years",  cagr |-> "cagr_3_years"] >>

\* the periods table of calculate_returns, in its iteration order
Periods ==
    << [name |-> "1_month",  days |-> 30,   ret |-> "return_1_month",  cagr |-> "cagr_1_month"],
       [name |-> "3_months", days |-> 90,   ret |-> "return_3_months", cagr |-> "cagr_3_months"],
       [name |-> "6_months", days |-> 180,  ret |-> "return_6_months", cagr |-> "cagr_6_months"],
       [name |-> "1_year",   days |-> 365,  ret |-> "return_1_year",   cagr |-> "cagr_1_year"],
       [name |-> "3_years",  days |-> 1095, ret |-> "return_3_years",  cagr |-> "cagr_3_years"] >>

\* a slip of lines 152-154: the oldest row stands in when no row is old enough
RowsUpTo_orOldest(rows, past_date) ==
    IF \E i \in 1..Len(rows) : rows[i].date # NaT /\ rows[i].date <= past_date
    THEN SelectSeq(rows, LAMBDA r : r.date # NaT /\ r.date <= past_date)
    ELSE <<rows[1]>>

\* df[df['date'] <= past_date]: the rows, in frame order, dated at or before
\* past_date (a comparison with NaT is False)
RowsUpTo(rows, past_date) ==
    SelectSeq(rows, LAMBDA r : r.date # NaT /\ r.date <= past_date)

\* a slip of line 155: iloc[0] for iloc[-1]
PastPrice_first(past_data) == past_data[1].Close

\* line 155: past_data.iloc[-1]['Close']
PastPrice(past_data) == Last(past_data).Close

\* a slip of line 159: `>` for `>=`
ReportsCagr_strict(days) == days > 365

\* line 159: if days >= 365
ReportsCagr(days) == days >= 365

\* the integer cube root of a natural number, when it has one (the cube of a
\* root above 1290 is beyond a 32-bit integer)
CubeRoots(m) == {c \in 0..(IF m < 1290 THEN m ELSE 1290) : c * c * c = m}

HasCubeRoot(m) == CubeRoots(m) # {}

CubeRoot(m) == CHOOSE c \in CubeRoots(m) : TRUE

\* round(((ratio ** (1/years)) - 1) * 100, 2) with years = days / 365.
\* years = 1 leaves the ratio as it is.  For years = 3 the cube root of a
\* ratio of two cubes is exact; any other positive ratio has an irrational
\* root, which is kept as the term [k |-> "cagr", n, d, days] naming it.
Cagr(ratio, days) ==
    IF days = 365 THEN Round2(FMul(FSub(ratio, Rat(1, 1)), Hundred))
    ELSE IF ratio.k = "nan" THEN NaN
    ELSE IF ratio.k = "inf" THEN Inf(1)
    ELSE IF ratio.n < 0 THEN NaN
    ELSE IF HasCubeRoot(ratio.n) /\ HasCubeRoot(ratio.d)
         THEN Round2(FMul(FSub(Rat(CubeRoot(ratio.n), CubeRoot(ratio.d)), Rat(1, 1)), Hundred))
    ELSE [k |-> "cagr", n |-> ratio.n, d |-> ratio.d, days |-> days]

\* lines 150-164 for the periods i..5: the keys the loop adds
RECURSIVE PeriodReturns(_, _, _)
PeriodReturns(rows, latest_price, i) ==
    IF i > Len(Periods) THEN EmptyDict
    ELSE LET p == Periods[i]
             past_date == Last(rows).date - p.days
             past_data == RowsUpTo(rows, past_date)
             rest == PeriodReturns(rows, latest_price, i + 1)
         IN  IF Len(past_data) = 0 THEN rest
             ELSE LET past_price == PastPrice(past_data)
                      period_return ==
                          FMul(FDiv(FSub(latest_price, past_price), past_price), Hundred)
                      entry == (p.ret :> Round2(period_return))
                  IN  IF ReportsCagr(p.days)
                      THEN (p.cagr :> Cagr(FDiv(latest_price, past_price), p.days))
                               @@ entry @@ rest
                      ELSE entry @@ rest

\* a slip of line 126: the amount multiplied by the price it buys at
Units_times(inv, oldest_price) == FMul(inv, oldest_price)

\* line 126: units bought at the oldest price
Units(inv, oldest_price) == FDiv(inv, oldest_price)

\* FinancialAnalyzer.calculate_returns(df, current_investment).
\* The result is [exc |-> TRUE] when the call raises (strftime of a NaT
\* latest date, line 138) and [exc |-> FALSE, val |-> the dict] otherwise.
calculate_returns(f, inv) ==
    IF IsEmpty(f) \/ Len(f.rows) < 2 THEN [exc |-> FALSE, val |-> EmptyDict]
    ELSE LET latest_price == Last(f.rows).Close
             oldest_price == f.rows[1].Close
             units == Units(inv, oldest_price)
             current_value == FMul(units, latest_price)
             absolute_return == FSub(current_value, inv)
             return_pct == FMul(FDiv(absolute_return, inv), Hundred)
         IN  IF Last(f.rows).date = NaT THEN [exc |-> TRUE, val |-> EmptyDict]
             ELSE [exc |-> FALSE,
                   val |-> [current_price |-> Round2(latest_price),
                            current_value |-> Round2(current_value),
                            invested_amount |-> Round2(inv),
                            absolute_return |-> Round2(absolute_return),
                            return_percentage |-> Round2(return_pct),
                            units |-> Round2(units),
                            latest_date |-> Last(f.rows).date]
                           @@ PeriodReturns(f.rows, latest_price, 1)]

\* x <= y for finite values
FLeq(x, y) == x.n * y.d <= y.n * x.d

\* Series.max() / Series.min() of a non-empty column of finite values
ColMax(col) == CHOOSE m \in {col[i] : i \in 1..Len(col)} : \A i \in 1..Len(col) : FLeq(col[i], m)

ColMin(col) == CHOOSE m \in {col[i] : i \in 1..Len(col)} : \A i \in 1..Len(col) : FLeq(m, col[i])

CloseColumn(rows) == [i \in 1..Len(rows) |-> rows[i].Close]

One == Rat(1, 1)

IsNaN(x) == x.k = "nan"

\* x <= y for values that are not NaN, the infinities included
FLeqX(x, y) ==
    IF x.k = "inf" THEN x.n < 0 \/ (y.k = "inf" /\ y.n > 0)
    ELSE IF y.k = "inf" THEN y.n > 0
    ELSE FLeq(x, y)

\* the entries of a column that are not NaN (what skipna=True keeps)
Valid(col) == SelectSeq(col, LAMBDA x : ~IsNaN(x))

\* line 173: df['Close'].pct_change() * 100, i.e. (col / col.shift(1) - 1) * 100;
\* the first entry has no predecessor and is NaN
PctChange(col) ==
    [i \in 1..Len(col) |->
        IF i = 1 THEN NaN
        ELSE FMul(FSub(FDiv(col[i], col[i - 1]), One), Hundred)]

\* the sum of the first n entries
RECURSIVE FSum(_, _)
FSum(col, n) == IF n = 0 THEN Zero ELSE FAdd(FSum(col, n - 1), col[n])

\* Series.mean(): over the entries that are not NaN, NaN when there are none
Mean(col) ==
    LET v == Valid(col)
    IN  IF Len(v) = 0 THEN NaN ELSE FDiv(FSum(v, Len(v)), Rat(Len(v), 1))

\* the square of Series.std(): the sample variance (ddof = 1) over the
\* entries that are not NaN, NaN when there are fewer than 2 of them
Variance(col) ==
    LET v == Valid(col)
        m == Mean(col)
        sq == [i \in 1..Len(v) |-> FMul(FSub(v[i], m), FSub(v[i], m))]
    IN  IF Len(v) < 2 THEN NaN ELSE FDiv(FSum(sq, Len(v)), Rat(Len(v) - 1, 1))

\* the largest s in lo..hi with s * s <= m, by bisection (lo * lo <= m)
RECURSIVE ISqrtIn(_, _, _)
ISqrtIn(m, lo, hi) ==
    IF lo = hi THEN lo
    ELSE LET mid == (lo + hi + 1) \div 2
         IN  IF mid * mid <= m THEN ISqrtIn(m, mid, hi) ELSE ISqrtIn(m, lo, mid - 1)

\* the whole part of the square root of a natural number (the square of a
\* root above 46340 is beyond a 32-bit integer)
ISqrt(m) == ISqrtIn(m, 0, IF m < 46340 THEN m ELSE 46340)

\* round(x ** 0.5, 2): the square root to the nearest hundredth, ties to even.
\* With s the whole part of the root and rem = (x - s*s) * x.d, the value
\* s + t/100 is the rounded root for the largest t in 0..100 with
\*   (s + (2t - 1)/200)^2 <= x,  i.e.  (400*s*u + u*u) * x.d <= 40000 * rem
\* for u = 2t - 1.  The root of nan or of a negative number is nan.
SqrtRound2(x) ==
    IF x.k = "nan" THEN NaN
    ELSE IF x.k = "inf" THEN (IF x.n > 0 THEN x ELSE NaN)
    ELSE IF x.n < 0 THEN NaN
    ELSE LET s == ISqrt(x.n \div x.d)
             rem == x.n - s * s * x.d
             Side(t) == (400 * s * (2 * t - 1) + (2 * t - 1) * (2 * t - 1)) * x.d
             T == {t \in 0..100 : 100 * s + t = 0 \/ Side(t) <= 40000 * rem}
             t == CHOOSE u \in T : \A w \in T : w <= u
             v == 100 * s + t
         IN  Rat(IF v > 0 /\ Side(t) = 40000 * rem /\ v % 2 = 1 THEN v - 1 ELSE v, 100)

\* the trading days of a year, lines 178 and 189
TradingDays == 252

\* line 178: round(df['daily_return'].std() * (252 ** 0.5), 2), the root
\* taken of 252 times the variance
Volatility(daily_return) ==
    SqrtRound2(FMul(Rat(TradingDays, 1), Variance(daily_return)))

\* the product of the first n entries, NaN entries counting as 1
RECURSIVE ProductUpTo(_, _)
ProductUpTo(col, n) ==
    IF n = 0 THEN One
    ELSE FMul(ProductUpTo(col, n - 1), IF IsNaN(col[n]) THEN One ELSE col[n])

\* a slip of line 182: the NaN of the first daily return filled in, so that
\* the growth factor starts at 1 on the first price
CumProd_filled(col) == [i \in 1..Len(col) |-> ProductUpTo(col, i)]

\* Series.cumprod(): a NaN entry is passed over and stays NaN in the result
CumProd(col) ==
    [i \in 1..Len(col) |-> IF IsNaN(col[i]) THEN NaN ELSE ProductUpTo(col, i)]

\* the largest / smallest of a set of values none of which is NaN
MaxOf(S) == CHOOSE m \in S : \A x \in S : FLeqX(x, m)

MinOf(S) == CHOOSE m \in S : \A x \in S : FLeqX(m, x)

\* Series.expanding().max(): at each position the largest entry so far that
\* is not NaN, NaN while there is none
ExpandingMax(col) ==
    [i \in 1..Len(col) |->
        LET seen == {col[j] : j \in {j \in 1..i : ~IsNaN(col[j])}}
        IN  IF seen = {} THEN NaN ELSE MaxOf(seen)]

\* Series.min() with skipna: NaN when every entry is NaN
NanMin(col) ==
    LET v == {col[j] : j \in {j \in 1..Len(col) : ~IsNaN(col[j])}}
    IN  IF v = {} THEN NaN ELSE MinOf(v)

\* lines 182-185
MaxDrawdown(daily_return) ==
    LET cumulative == CumProd([i \in 1..Len(daily_return) |->
                                  FAdd(One, FDiv(daily_return[i], Hundred))])
        running_max == ExpandingMax(cumulative)
        drawdown == [i \in 1..Len(cumulative) |->
                        FMul(FDiv(FSub(cumulative[i], running_max[i]), running_max[i]),
                             Hundred)]
    IN  Round2(NanMin(drawdown))

\* line 188
risk_free_rate == Rat(6, 1)

\* a slip of lines 190-194: the quotient without its guard
SharpeRatio_unguarded(daily_return, volatility) ==
    Round2(FDiv(FSub(FMul(Mean(daily_return), Rat(TradingDays, 1)), risk_free_rate),
                volatility))

\* lines 189-194, on the volatility as it stands in stats (rounded)
SharpeRatio(daily_return, volatility) ==
    LET avg_return == FMul(Mean(daily_return), Rat(TradingDays, 1))
    IN  IF Positive(volatility)
        THEN Round2(FDiv(FSub(avg_return, risk_free_rate), volatility))
        ELSE Zero

\* a slip of line 173: the daily returns stored over the Close column
WithColumn_overClose(f, name, col) ==
    [rows |-> [i \in 1..Len(f.rows) |-> [f.rows[i] EXCEPT !.Close = col[i]]],
     columns |-> f.columns]

\* line 173, the assignment df['daily_return'] = ...: the frame with the
\* column stored into it (over a column of that name, if it has one)
WithColumn(f, name, col) ==
    [rows |-> [i \in 1..Len(f.rows) |-> (name :> col[i]) @@ f.rows[i]],
     columns |-> f.columns \cup {name}]

\* FinancialAnalyzer.calculate_risk_metrics(df).  [exc, val] as for
\* calculate_returns, and df, the caller's frame as the call leaves it; the
\* call does not raise on a frame with a numeric Close column.
calculate_risk_metrics(f) ==
    IF IsEmpty(f) THEN [exc |-> FALSE, val |-> EmptyDict, df |-> f]
    ELSE LET daily_return == PctChange(CloseColumn(f.rows))
             volatility == Volatility(daily_return)
         IN  [exc |-> FALSE,
              val |-> [max_price |-> Round2(ColMax(CloseColumn(f.rows))),
                       min_price |-> Round2(ColMin(CloseColumn(f.rows))),
                       volatility |-> volatility,
                       max_drawdown |-> MaxDrawdown(daily_return),
                       sharpe_ratio |-> SharpeRatio(daily_return, volatility)],
              df |-> WithColumn(f, "daily_return", daily_return)]

(***************************************************************************)
(* The market-data provider.  What the provider does for one call of       *)
(* analyze_instrument is a response                                        *)
(*   [resolve |-> "ok" | "unknown" | "error",    the metadata lookup       *)
(*    history |-> "ok" | "error",                the history fetch         *)
(*    rows    |-> the series the history fetch yields]                     *)
(* "error" is an exception inside the provider call (network failure),     *)
(* which get_mf_details, get_mf_historical_data, search_stock and          *)
(* get_stock_historical_data each catch themselves.                        *)
(***************************************************************************)
\* an Optional[Dict]: [some |-> FALSE] is None
NoDict == [some |-> FALSE]

\* get_mf_details: the JSON of the scheme, None on any exception
get_mf_details(scheme_code, resp) ==
    IF resp.resolve = "ok"
    THEN [some |-> TRUE, meta |-> [scheme_code |-> scheme_code, scheme_name |-> "scheme"]]
    ELSE NoDict

\* get_mf_historical_data: the frame sorted by date, empty on no data or exception
get_mf_historical_data(scheme_code, resp) ==
    IF resp.history # "ok" \/ Len(resp.rows) = 0 THEN EmptyFrame ELSE Frame(resp.rows)

\* search_stock: the info dict of the first symbol that resolves, else None
search_stock(symbol, resp) ==
    IF resp.resolve = "ok" THEN [some |-> TRUE, symbol |-> symbol, name |-> "stock"]
    ELSE NoDict

\* get_stock_historical_data: the frame, empty on no data or exception
get_stock_historical_data(symbol, resp) ==
    IF resp.history # "ok" \/ Len(resp.rows) = 0 THEN EmptyFrame ELSE Frame(resp.rows)

\* str.lower() on the instrument types in use
Lower(t) == IF t = "Mutual Fund" THEN "mutual fund"
            ELSE IF t = "Stock" THEN "stock" ELSE t

(***************************************************************************)
(* analyze_instrument.                                                     *)
(***************************************************************************)
\* a slip of line 202: 'success': True
InitialResult_success(instrument_type) ==
    [success |-> TRUE, instrument_type |-> instrument_type, name |-> "",
     returns |-> EmptyDict, risk_metrics |-> EmptyDict, metadata |-> EmptyDict]

\* lines 201-208: result as analyze_instrument first makes it
InitialResult(instrument_type) ==
    [success |-> FALSE, instrument_type |-> instrument_type, name |-> "",
     returns |-> EmptyDict, risk_metrics |-> EmptyDict, metadata |-> EmptyDict]

\* a slip of lines 236-238: success set before the calculators are run
RunCalculators_earlySuccess(result, f, inv) ==
    LET r == calculate_returns(f, inv)
        marked == [result EXCEPT !.success = TRUE]
    IN  IF r.exc THEN [exc |-> TRUE, result |-> marked, trace |-> <<"calculate_returns">>]
        ELSE [exc |-> calculate_risk_metrics(f).exc,
              result |-> [marked EXCEPT !.returns = r.val,
                                        !.risk_metrics = calculate_risk_metrics(f).val],
              trace |-> <<"calculate_returns", "calculate_risk_metrics">>]

\* lines 236-240: the calculators on the fetched frame.  An exception in a
\* calculator leaves result as it was assigned so far.  trace names the
\* methods called, in call order.
RunCalculators(result, f, inv) ==
    LET r == calculate_returns(f, inv)
    IN  IF r.exc THEN [exc |-> TRUE, result |-> result, trace |-> <<"calculate_returns">>]
        ELSE LET with_returns == [result EXCEPT !.returns = r.val]
                 m == calculate_risk_metrics(f)
                 trace == <<"calculate_returns", "calculate_risk_metrics">>
             IN  IF m.exc THEN [exc |-> TRUE, result |-> with_returns, trace |-> trace]
                 ELSE [exc |-> FALSE,
                       result |-> [with_returns EXCEPT !.risk_metrics = m.val,
                                                       !.success = TRUE],
                       trace |-> trace]

\* lines 201-240, the body of the try block: [exc |-> an exception left the
\* body, result |-> the result dict as it stands then, trace |-> the methods
\* the body called, in call order]
AnalyzeBody(instrument_type, instrument_identifier, inv, resp) ==
    LET result == InitialResult(instrument_type)
    IN  IF Lower(instrument_type) = "mutual fund"
        THEN LET fund_details == get_mf_details(instrument_identifier, resp)
             IN  IF ~fund_details.some
                 THEN [exc |-> FALSE, result |-> result, trace |-> <<"get_mf_details">>]
                 ELSE LET named == [result EXCEPT !.name = fund_details.meta.scheme_name,
                                                  !.metadata = fund_details.meta]
                          f == get_mf_historical_data(instrument_identifier, resp)
                          trace == <<"get_mf_details", "get_mf_historical_data">>
                      IN  IF IsEmpty(f) THEN [exc |-> FALSE, result |-> named, trace |-> trace]
                          ELSE LET c == RunCalculators(named, f, inv)
                               IN  [c EXCEPT !.trace = trace \o c.trace]
        ELSE LET stock_info == search_stock(instrument_identifier, resp)
             IN  IF ~stock_info.some
                 THEN [exc |-> FALSE, result |-> result, trace |-> <<"search_stock">>]
                 ELSE LET named == [result EXCEPT !.name = stock_info.name,
                                                  !.metadata = [symbol |-> stock_info.symbol,
                                                                name |-> stock_info.name]]
                          f == get_stock_historical_data(stock_info.symbol, resp)
                          trace == <<"search_stock", "get_stock_historical_data">>
                      IN  IF IsEmpty(f) THEN [exc |-> FALSE, result |-> named, trace |-> trace]
                          ELSE LET c == RunCalculators(named, f, inv)
                               IN  [c EXCEPT !.trace = trace \o c.trace]

\* without the try/except of lines 210 and 242: the exception leaves the call
analyze_instrument_unguarded(instrument_type, instrument_identifier, inv, resp) ==
    AnalyzeBody(instrument_type, instrument_identifier, inv, resp)

\* FinancialAnalyzer.analyze_instrument: `except Exception` (line 242)
\* returns result whatever the body raised
analyze_instrument(instrument_type, instrument_identifier, inv, resp) ==
    [AnalyzeBody(instrument_type, instrument_identifier, inv, resp) EXCEPT !.exc = FALSE]

(***************************************************************************)
(* The inputs the calculators are exercised on.                            *)
(***************************************************************************)
Dates == {0, 700, 1065, 1100}

Prices == {Rat(0, 1), Rat(3, 1), Rat(25, 2), Rat(617, 500)}

Amounts == {Rat(0, 1), Rat(1000, 1), Rat(2500, 1)}

Points == [date : Dates \cup {NaT}, Close : Prices]

\* sort_values('date') order: ascending, NaT last
DateBefore(a, b) == b = NaT \/ (a # NaT /\ a <= b)

SeriesOfLen(n) ==
    {s \in [1..n -> Points] : \A i \in 1..n, j \in 1..n : i < j => DateBefore(s[i].date, s[j].date)}

AllSeries == UNION {SeriesOfLen(n) : n \in 0..MaxLen}

(***************************************************************************)
(* The store (src/database.py).  DatabaseManager keeps users and           *)
(* investments in one SQLite file.  Every operation opens a connection of  *)
(* its own (get_connection, lines 19-21); the application shares one       *)
(* DatabaseManager between its sessions (get_managers, src/app.py lines    *)
(* 22-27), which run in threads of their own, so operations of two         *)
(* sessions interleave at the statements they execute.                     *)
(*                                                                         *)
(* A row of users is [user_id, mobile] and a row of investments is         *)
(* [investment_id, user_id, date_added]: the other columns (name,          *)
(* password, user_type, instrument_type, instrument_name, scheme_code,     *)
(* symbol, current_investment) are stored as given and no statement of the *)
(* operations modelled here selects by them.                               *)
(*                                                                         *)
(* SQLite lets one connection write at a time: an INSERT or DELETE takes   *)
(* the write lock and the connection keeps it until it commits, rolls back *)
(* or is closed.  A statement that cannot get the lock within the busy     *)
(* timeout raises OperationalError ("database is locked").  A connection   *)
(* that an operation leaves open stays open, transaction and lock          *)
(* included, until the interpreter finalises the connection object; when   *)
(* that happens depends on the interpreter.                                *)
(***************************************************************************)
Sessions == {"session A", "session B"}
Free == "free"                \* write_lock: nobody
Abandoned == "abandoned"      \* write_lock: a connection left open by a returned operation
NoMobile == "-"
Mobiles == {"9000000001", "9000000002"}
UserIds == {1, 2}
InvestmentIds == {1, 2, 3}

\* a session outside create_user.  Inside, pc is the statement it is at and
\* mobile the argument; registered and raced are history: whether the mobile
\* was registered when the call began, and whether the call passed its
\* existence check while another call with the same mobile had passed its own
\* and had not inserted yet
IdleSession == [pc |-> "idle", mobile |-> NoMobile, registered |-> FALSE, raced |-> FALSE]

\* the store before DatabaseManager() has added anything (init_database:
\* CREATE TABLE IF NOT EXISTS, both tables empty)
IdleDb ==
    /\ users = {}
    /\ investments = {}
    /\ user_seq = 0
    /\ investment_seq = 0
    /\ now = 0
    /\ session = [s \in Sessions |-> IdleSession]
    /\ write_lock = Free
    /\ unclosed = 0
    /\ db_log = << >>

\* SELECT mobile FROM users WHERE mobile = ?
SelectMobile_none(table, mobile) == {}
SelectMobile(table, mobile) == {u \in table : u.mobile = mobile}

\* mobile TEXT UNIQUE NOT NULL: an INSERT of a mobile that a committed row has
\* fails with IntegrityError
UniqueViolated_never(table, mobile) == FALSE
UniqueViolated(table, mobile) == \E u \in table : u.mobile = mobile

\* DELETE FROM investments WHERE investment_id = ?
DeleteRow_ofUser(table, investment_id) ==
    {r \in table : ~(\E d \in table : d.investment_id = investment_id /\ d.user_id = r.user_id)}
DeleteRow(table, investment_id) == {r \in table : r.investment_id # investment_id}

\* SELECT ... FROM investments WHERE user_id = ? ORDER BY date_added DESC, as
\* the sequence of the rows of the returned frame.  date_added has a
\* resolution of one second; rows of one second come in the order of the
\* table scan, which is by ascending investment_id.
RECURSIVE OrderByDateAddedDesc(_)
OrderByDateAddedDesc(rows) ==
    IF rows = {} THEN << >>
    ELSE LET first == CHOOSE r \in rows :
                        \A o \in rows :
                            \/ r.date_added > o.date_added
                            \/ /\ r.date_added = o.date_added
                               /\ r.investment_id <= o.investment_id
         IN  <<first>> \o OrderByDateAddedDesc(rows \ {first})

get_user_investments(table, user_id) ==
    OrderByDateAddedDesc({r \in table : r.user_id = user_id})

(***************************************************************************)
(* SpecCalc: calculate_returns called on a frame and an amount.            *)
(***************************************************************************)
IdlePortfolio ==
    /\ investments_df = << >>
    /\ pc = "idle"
    /\ idx = 0
    /\ total_invested = Zero
    /\ total_current_value = Zero
    /\ portfolio_data = << >>
    /\ portfolio = EmptyDict
    /\ calls = << >>

InitCalc ==
    /\ IdlePortfolio
    /\ IdleDb
    /\ df \in {Frame(s) : s \in AllSeries}
    /\ current_investment \in Amounts
    /\ calc_pc = "ready"
    /\ returns = EmptyDict
    /\ risk_metrics = EmptyDict
    /\ history = << >>
    /\ df_given = df

CallCalculateReturns ==
    /\ calc_pc = "ready"
    /\ LET r == calculate_returns(df, current_investment)
       IN  /\ calc_pc' = IF r.exc THEN "raised" ELSE "returned"
           /\ returns' = r.val
    /\ UNCHANGED <<df, current_investment, risk_metrics, history, df_given>>
    /\ UNCHANGED portfolioVars
    /\ UNCHANGED dbVars

NextCalc == CallCalculateReturns

SpecCalc == InitCalc /\ [][NextCalc]_vars

(***************************************************************************)
(* SpecRisk: both calculators called on one frame object, in any order and *)
(* any number of times up to MaxCalls.  calculate_risk_metrics stores a    *)
(* column into the frame it is given (line 173), so df is the frame as the *)
(* calls so far have left it.  The prices are such that each daily return  *)
(* is a whole percentage, which keeps 252 times the variance a whole       *)
(* number for up to 4 daily returns.                                       *)
(***************************************************************************)
RiskDates == {0, 400}

RiskPrices == {Rat(0, 1), Rat(50, 1), Rat(100, 1), Rat(200, 1)}

RiskSeriesOfLen(n) ==
    {s \in [1..n -> [date : RiskDates, Close : RiskPrices]] :
        \A i \in 1..n, j \in 1..n : i < j => s[i].date <= s[j].date}

RiskSeries == UNION {RiskSeriesOfLen(n) : n \in 0..MaxLen}

InitRisk ==
    /\ IdlePortfolio
    /\ IdleDb
    /\ df \in {Frame(s) : s \in RiskSeries}
    /\ current_investment \in Amounts
    /\ calc_pc = "ready"
    /\ returns = EmptyDict
    /\ risk_metrics = EmptyDict
    /\ history = << >>
    /\ df_given = df

\* lines 117-166 called on df
CalculateReturns ==
    /\ Len(history) < MaxCalls
    /\ LET r == calculate_returns(df, current_investment)
       IN  /\ calc_pc' = IF r.exc THEN "raised" ELSE "returned"
           /\ returns' = r.val
           /\ history' = Append(history, [op |-> "calculate_returns", exc |-> r.exc,
                                          out |-> r.val])
    /\ UNCHANGED <<df, current_investment, risk_metrics, df_given>>
    /\ UNCHANGED portfolioVars
    /\ UNCHANGED dbVars

\* lines 168-196 called on df
CalculateRiskMetrics ==
    /\ Len(history) < MaxCalls
    /\ LET m == calculate_risk_metrics(df)
       IN  /\ calc_pc' = IF m.exc THEN "raised" ELSE "returned"
           /\ risk_metrics' = m.val
           /\ df' = m.df
           /\ history' = Append(history, [op |-> "calculate_risk_metrics", exc |-> m.exc,
                                          out |-> m.val])
    /\ UNCHANGED <<current_investment, returns, df_given>>
    /\ UNCHANGED portfolioVars
    /\ UNCHANGED dbVars

NextRisk == CalculateReturns \/ CalculateRiskMetrics

SpecRisk == InitRisk /\ [][NextRisk]_vars

(***************************************************************************)
(* analyze_portfolio.  A row of investments_df is                          *)
(*   [instrument_type, scheme_code, symbol, current_investment]            *)
(* with NA for a NULL scheme_code or symbol (database.py stores the        *)
(* scheme_code of a fund and the symbol of a stock, lines 107-119; the     *)
(* amount is a REAL column, not bound to two decimals: 2000.005).          *)
(***************************************************************************)
NA == "NA"

Row(t, code, sym, amount) ==
    [instrument_type |-> t, scheme_code |-> code, symbol |-> sym, current_investment |-> amount]

HoldingRows ==
    {Row("Mutual Fund", "119551", NA, Rat(1000, 1)),
     Row("Mutual Fund", "119551", NA, Rat(0, 1)),
     Row("Mutual Fund", NA, NA, Rat(1000, 1)),
     Row("Stock", NA, "TCS.NS", Rat(400001, 200)),
     Row("Stock", NA, "TCS.NS", Rat(0, 1)),
     Row("Stock", NA, NA, Rat(2000, 1)),
     Row("mutual fund", "119551", NA, Rat(1000, 1)),
     Row("mutual fund", NA, "119551", Rat(2000, 1))}

Portfolios == UNION {[1..n -> HoldingRows] : n \in 0..MaxHoldings}

Pt(date, n, d) == [date |-> date, Close |-> Rat(n, d)]

\* what the provider may do for one holding
Responses ==
    {[resolve |-> "unknown", history |-> "ok", rows |-> << >>],
     [resolve |-> "error", history |-> "error", rows |-> << >>],
     [resolve |-> "ok", history |-> "error", rows |-> << >>],
     [resolve |-> "ok", history |-> "ok", rows |-> << >>],
     [resolve |-> "ok", history |-> "ok", rows |-> <<Pt(1100, 3, 1)>>],
     [resolve |-> "ok", history |-> "ok", rows |-> <<Pt(0, 3, 1), Pt(1100, 25, 2)>>],
     [resolve |-> "ok", history |-> "ok", rows |-> <<Pt(0, 0, 1), Pt(1100, 25, 2)>>],
     [resolve |-> "ok", history |-> "ok", rows |-> <<Pt(0, 3, 1), Pt(NaT, 25, 2)>>],
     [resolve |-> "ok", history |-> "ok",
      rows |-> <<Pt(0, 200, 1), Pt(700, 50, 1), Pt(1065, 100, 1)>>]}

IdleCalc ==
    /\ df = EmptyFrame
    /\ current_investment = Zero
    /\ calc_pc = "idle"
    /\ returns = EmptyDict
    /\ risk_metrics = EmptyDict
    /\ history = << >>
    /\ df_given = EmptyFrame

Init ==
    /\ investments_df \in Portfolios
    /\ pc = "start"
    /\ idx = 0
    /\ total_invested = Zero
    /\ total_current_value = Zero
    /\ portfolio_data = << >>
    /\ portfolio = EmptyDict
    /\ calls = << >>
    /\ IdleCalc
    /\ IdleDb

\* line 254
Identifier(investment) ==
    IF investment.instrument_type = "Mutual Fund" THEN investment.scheme_code
    ELSE investment.symbol

\* a slip of line 248: the sum taken over the rows that get analyzed only
RECURSIVE SumInvestment_analyzed(_, _)
SumInvestment_analyzed(rows, n) ==
    IF n = 0 THEN Zero
    ELSE IF Identifier(rows[n]) = NA THEN SumInvestment_analyzed(rows, n - 1)
    ELSE FAdd(SumInvestment_analyzed(rows, n - 1), rows[n].current_investment)

\* line 248: investments_df['current_investment'].sum() over the first n rows
RECURSIVE SumInvestment(_, _)
SumInvestment(rows, n) ==
    IF n = 0 THEN Zero ELSE FAdd(SumInvestment(rows, n - 1), rows[n].current_investment)

\* a slip of line 266: `=` for `+=`
AddCurrentValue_assign(total, analysis) == Get(analysis.returns, "current_value", Zero)

\* line 266: total_current_value += analysis['returns'].get('current_value', 0)
AddCurrentValue(total, analysis) ==
    FAdd(total, Get(analysis.returns, "current_value", Zero))

\* a slip of line 267: insert(0, analysis) for append(analysis)
AppendInstrument_front(data, analysis) == <<analysis>> \o data

\* line 267: portfolio_data.append(analysis)
AppendInstrument(data, analysis) == Append(data, analysis)

\* a slip of line 270: the fraction, not the percentage
PortfolioReturnPct_fraction(total_return, invested) ==
    IF Positive(invested) THEN FDiv(total_return, invested) ELSE Zero

\* a slip of line 270: the division without its guard
PortfolioReturnPct_unguarded(total_return, invested) ==
    FMul(FDiv(total_return, invested), Hundred)

\* line 270: (total_return / total_invested * 100) if total_invested > 0 else 0
PortfolioReturnPct(total_return, invested) ==
    IF Positive(invested) THEN FMul(FDiv(total_return, invested), Hundred) ELSE Zero

\* lines 248-251
Begin ==
    /\ pc = "start"
    /\ total_invested' = SumInvestment(investments_df, Len(investments_df))
    /\ total_current_value' = Zero
    /\ portfolio_data' = << >>
    /\ pc' = "loop"
    /\ UNCHANGED <<investments_df, idx, portfolio, calls>>
    /\ UNCHANGED calcVars
    /\ UNCHANGED dbVars

\* lines 253-257: a row whose identifier is missing is passed over
SkipRow ==
    /\ pc = "loop"
    /\ idx < Len(investments_df)
    /\ Identifier(investments_df[idx + 1]) = NA
    /\ idx' = idx + 1
    /\ calls' = Append(calls, [skipped |-> TRUE])
    /\ UNCHANGED <<investments_df, pc, total_invested, total_current_value,
                   portfolio_data, portfolio>>
    /\ UNCHANGED calcVars
    /\ UNCHANGED dbVars

\* lines 253-267: a row with an identifier is analyzed; a is what the one
\* call of analyze_instrument gave
AnalyzeRow ==
    /\ pc = "loop"
    /\ idx < Len(investments_df)
    /\ Identifier(investments_df[idx + 1]) # NA
    /\ \E resp \in Responses :
          LET investment == investments_df[idx + 1]
          IN  \E a \in {analyze_instrument(investment.instrument_type,
                                           Identifier(investment),
                                           investment.current_investment, resp)} :
                /\ calls' = Append(calls, [skipped |-> FALSE, response |-> resp,
                                           raised |-> a.exc, analysis |-> a.result,
                                           trace |-> a.trace])
                /\ IF a.exc
                   THEN /\ pc' = "raised"
                        /\ UNCHANGED <<total_current_value, portfolio_data>>
                   ELSE /\ pc' = pc
                        /\ IF a.result.success
                           THEN /\ total_current_value' =
                                      AddCurrentValue(total_current_value, a.result)
                                /\ portfolio_data' =
                                      AppendInstrument(portfolio_data, a.result)
                           ELSE UNCHANGED <<total_current_value, portfolio_data>>
    /\ idx' = idx + 1
    /\ UNCHANGED <<investments_df, total_invested, portfolio>>
    /\ UNCHANGED calcVars
    /\ UNCHANGED dbVars

\* lines 269-279
Return ==
    /\ pc = "loop"
    /\ idx = Len(investments_df)
    /\ LET total_return == FSub(total_current_value, total_invested)
           return_pct == PortfolioReturnPct(total_return, total_invested)
       IN  portfolio' = [total_invested |-> Round2(total_invested),
                         total_current_value |-> Round2(total_current_value),
                         total_return |-> Round2(total_return),
                         return_percentage |-> Round2(return_pct),
                         num_investments |-> Len(portfolio_data),
                         instruments |-> portfolio_data]
    /\ pc' = "done"
    /\ UNCHANGED <<investments_df, idx, total_invested, total_current_value,
                   portfolio_data, calls>>
    /\ UNCHANGED calcVars
    /\ UNCHANGED dbVars

Next == Begin \/ SkipRow \/ AnalyzeRow \/ Return

Spec == Init /\ [][Next]_vars

(***************************************************************************)
(* Properties of analyze_portfolio (checked under Spec).                   *)
(***************************************************************************)
Done == pc = "done"

FAbs(x) == IF x.n < 0 THEN FNeg(x) ELSE x

\* |x - y| <= bound, all three finite
Near(x, y, bound) == IsFin(x) /\ IsFin(y) /\ FLeq(FAbs(FSub(x, y)), bound)

\* half a unit of the second decimal
HalfCent == Rat(1, 200)

Cent == Rat(1, 100)

Analyzed(c) == ~c.skipped

Succeeded(c) == ~c.skipped /\ c.analysis.success

\* the sum of invested amounts over the rows with index in S
RECURSIVE InvestedOver(_)
InvestedOver(S) ==
    IF S = {} THEN Zero
    ELSE LET i == CHOOSE j \in S : TRUE
         IN  FAdd(investments_df[i].current_investment, InvestedOver(S \ {i}))

AllRows == 1..Len(investments_df)

\* the sum of the reported current_value over the successful analyses among
\* the first n calls
RECURSIVE CurrentValueOfSuccesses(_)
CurrentValueOfSuccesses(n) ==
    IF n = 0 THEN Zero
    ELSE IF Succeeded(calls[n])
         THEN FAdd(CurrentValueOfSuccesses(n - 1),
                   Get(calls[n].analysis.returns, "current_value", Zero))
         ELSE CurrentValueOfSuccesses(n - 1)

\* the successful analyses among the first n calls, in call order
RECURSIVE SuccessesOf(_)
SuccessesOf(n) ==
    IF n = 0 THEN << >>
    ELSE IF Succeeded(calls[n]) THEN Append(SuccessesOf(n - 1), calls[n].analysis)
         ELSE SuccessesOf(n - 1)

NoSuccess == \A i \in 1..Len(calls) : ~Succeeded(calls[i])

\* C1: the total_invested analyze_portfolio returns is the sum of the
\* invested amounts over ALL rows of the input, the rows skipped for a
\* missing identifier and the rows whose analysis failed included (as every
\* reported amount, to two decimals: within half a unit of the second).
C1_TotalInvestedOverAllHoldings ==
    Done => /\ Near(portfolio.total_invested, InvestedOver(AllRows), HalfCent)
            /\ portfolio.total_invested.d \in {1, 2, 4, 5, 10, 20, 25, 50, 100}

\* reached: a finished call with a skipped row and a failed analysis, both
\* with money invested
C1_Witness ==
    /\ Done
    /\ \E i, j \in 1..Len(calls) :
          /\ calls[i].skipped
          /\ Positive(investments_df[i].current_investment)
          /\ Analyzed(calls[j]) /\ ~calls[j].analysis.success
          /\ Positive(investments_df[j].current_investment)

\* C2 as stated: with no holding successfully analyzed the call reports
\* total_invested as the sum of the invested amounts, total_current_value 0
\* and return_percentage 0.
C2_NoSuccessReportsZeroReturn ==
    (Done /\ NoSuccess) =>
        /\ Near(portfolio.total_invested, InvestedOver(AllRows), HalfCent)
        /\ portfolio.total_current_value = Zero
        /\ portfolio.return_percentage = Zero

\* C2 amended: with no holding successfully analyzed the call reports
\* total_invested as the sum of the invested amounts, total_current_value 0,
\* total_return = -total_invested, and return_percentage -100 when
\* total_invested > 0 (0 only when total_invested is not positive).
C2_NoSuccessReportsTotalLoss ==
    (Done /\ NoSuccess) =>
        /\ Near(portfolio.total_invested, InvestedOver(AllRows), HalfCent)
        /\ portfolio.total_current_value = Zero
        /\ portfolio.total_return = FNeg(portfolio.total_invested)
        /\ portfolio.return_percentage =
              IF Positive(InvestedOver(AllRows)) THEN Rat(-100, 1) ELSE Zero

\* reached: a finished call on a funded portfolio in which an analysis was
\* tried and none succeeded
C2_Witness ==
    /\ Done
    /\ NoSuccess
    /\ \E i \in 1..Len(calls) : Analyzed(calls[i])
    /\ Positive(portfolio.total_invested)

\* C3: the total_current_value analyze_portfolio returns is the sum of
\* current_value over exactly the holdings whose analysis returned
\* success = true; skipped and failed holdings contribute nothing.
C3_CurrentValueOverSuccesses ==
    Done => portfolio.total_current_value = Round2(CurrentValueOfSuccesses(Len(calls)))

\* reached: two successful analyses with a current value each
C3_Witness ==
    /\ Done
    /\ Len(calls) = 2
    /\ \A i \in 1..2 :
          /\ Succeeded(calls[i])
          /\ Positive(Get(calls[i].analysis.returns, "current_value", Zero))
          /\ IsFin(calls[i].analysis.returns.current_value)

\* C4: in every result, total_return = total_current_value - total_invested,
\* and return_percentage = total_return / total_invested * 100 when
\* total_invested > 0 and 0 otherwise: the reported fields are these
\* quantities of the sums the call holds, each rounded to two decimals, so
\* the reported total_return is within a unit of the second decimal of the
\* difference of the reported totals.
C4_ReturnAndPercentage ==
    Done =>
        LET difference == FSub(total_current_value, total_invested)
        IN  /\ portfolio.total_return = Round2(difference)
            /\ IsFin(portfolio.total_current_value) =>
                  Near(portfolio.total_return,
                       FSub(portfolio.total_current_value, portfolio.total_invested), Cent)
            /\ Positive(total_invested) =>
                  portfolio.return_percentage =
                      Round2(FMul(FDiv(difference, total_invested), Hundred))
            /\ ~Positive(total_invested) => portfolio.return_percentage = Zero

\* reached: a finished call on a portfolio of holdings with nothing invested
\* (total_invested = 0), one of them successfully analyzed
C4_Witness ==
    /\ Done
    /\ Len(investments_df) > 0
    /\ portfolio.total_invested = Zero
    /\ ~NoSuccess

\* C5: instruments holds exactly the analyses with success = true, one per
\* successfully analyzed holding, in the order of the input rows, and
\* num_investments is its length.  (It holds of portfolio_data all along.)
C5_InstrumentsInInputOrder ==
    /\ pc \in {"loop", "done"} => portfolio_data = SuccessesOf(Len(calls))
    /\ Done =>
          /\ portfolio.instruments = SuccessesOf(Len(calls))
          /\ portfolio.num_investments = Len(portfolio.instruments)

\* reached: two different successful analyses in one result
C5_Witness ==
    /\ Done
    /\ Len(portfolio.instruments) = 2
    /\ portfolio.instruments[1] # portfolio.instruments[2]

\* the provider failed for the call: unknown identifier, an exception in the
\* lookup or in the fetch, an empty series, or a series with an unparsable
\* latest date
ProviderFailed(resp) ==
    \/ resp.resolve # "ok"
    \/ resp.history # "ok"
    \/ Len(resp.rows) = 0
    \/ Last(resp.rows).date = NaT

\* C6: whatever the provider does, analyze_instrument returns a result and
\* never raises, so analyze_portfolio passes over all holdings; a provider
\* failure yields success = false for that holding.
C6_ProviderFailureIsLocal ==
    /\ pc # "raised"
    /\ \A i \in 1..Len(calls) :
          Analyzed(calls[i]) =>
              /\ ~calls[i].raised
              /\ ProviderFailed(calls[i].response) => ~calls[i].analysis.success
    /\ Done => Len(calls) = Len(investments_df)

\* reached: the series of the first holding makes a calculator raise, and the
\* second holding is analyzed successfully after it
C6_Witness ==
    /\ Done
    /\ Len(calls) = 2
    /\ Analyzed(calls[1])
    /\ calls[1].response.resolve = "ok"
    /\ Len(calls[1].response.rows) >= 2
    /\ Last(calls[1].response.rows).date = NaT
    /\ Succeeded(calls[2])

\* C7 as stated: a series of fewer than 2 points for a resolvable identifier
\* gives success = false, and the holding is not among the instruments.
C7_ShortSeriesFails ==
    \A i \in 1..Len(calls) :
        (/\ Analyzed(calls[i])
         /\ calls[i].response.resolve = "ok"
         /\ Len(calls[i].response.rows) < 2)
        => /\ ~calls[i].analysis.success
           /\ \A k \in 1..Len(portfolio_data) : portfolio_data[k] # calls[i].analysis

(***************************************************************************)
(* Properties of calculate_returns (checked under SpecCalc).               *)
(***************************************************************************)
Returned == calc_pc = "returned"

FirstPrice == df.rows[1].Close

LastPrice == Last(df.rows).Close

\* C8 as stated: with invested_amount = 0 and a series of at least 2 points,
\* calculate_returns reports return_percentage = 0 (not NaN, infinity or an
\* error) and absolute_return = current_value.  (Taken on the series with a
\* positive first price and a valid latest date, where the amount is the
\* only zero the call divides by.)
C8_ZeroInvestedZeroPercentage ==
    (/\ calc_pc # "ready"
     /\ Len(df.rows) >= 2
     /\ Last(df.rows).date # NaT
     /\ Positive(FirstPrice)
     /\ current_investment = Zero)
    => /\ Returned
       /\ returns.return_percentage = Zero
       /\ returns.absolute_return = returns.current_value

\* C9 as stated: when the first price of the series is 0 the computation does
\* not raise and no division-by-zero value reaches units, current_value or
\* return_percentage: each is the zero fallback.  (Taken on a positive
\* invested amount and a valid latest date, where the first price is the
\* only zero the call divides by.)
C9_ZeroFirstPriceFallsBackToZero ==
    (/\ calc_pc # "ready"
     /\ Len(df.rows) >= 2
     /\ Last(df.rows).date # NaT
     /\ Positive(current_investment)
     /\ ~Positive(FirstPrice))
    => /\ Returned
       /\ returns.units = Zero
       /\ returns.current_value = Zero
       /\ returns.return_percentage = Zero

\* C10: for a series of at least 2 points and a positive invested amount the
\* reported units, current_value, absolute_return and return_percentage are
\* each within half a unit of the second decimal of
\*   units = invested / first price,      current_value = units * last price,
\*   absolute_return = current_value - invested,
\*   return_percentage = absolute_return / invested * 100
\* (stated with the divisions multiplied out).  With a first price of 0 the
\* quotient is the float +inf, and the fields are what float arithmetic makes
\* of it.
C10_ReturnsWithinRounding ==
    (Returned /\ Len(df.rows) >= 2 /\ Positive(current_investment)) =>
        LET a == current_investment
            p0 == FirstPrice
            pl == LastPrice
            r == returns
        IN  IF Positive(p0)
            THEN /\ Near(FMul(r.units, p0), a, FMul(HalfCent, p0))
                 /\ Near(FMul(r.current_value, p0), FMul(a, pl), FMul(HalfCent, p0))
                 /\ Near(FMul(FAdd(r.absolute_return, a), p0), FMul(a, pl),
                         FMul(HalfCent, p0))
                 /\ Near(FMul(r.return_percentage, FMul(a, p0)),
                         FMul(Hundred, FSub(FMul(a, pl), FMul(a, p0))),
                         FMul(HalfCent, FMul(a, p0)))
            ELSE /\ r.units = Inf(1)
                 /\ r.current_value = FMul(r.units, pl)
                 /\ r.absolute_return = FSub(r.current_value, a)
                 /\ r.return_percentage = FMul(FDiv(r.absolute_return, a), Hundred)

\* reached: a result whose units and current_value were actually rounded
C10_Witness ==
    /\ Returned
    /\ Len(df.rows) >= 2
    /\ Positive(current_investment)
    /\ Positive(FirstPrice)
    /\ FMul(returns.units, FirstPrice) # current_investment
    /\ FMul(returns.current_value, FirstPrice) # FMul(current_investment, LastPrice)

(***************************************************************************)
(* Properties of the trailing periods of calculate_returns (checked under  *)
(* SpecCalc).                                                              *)
(***************************************************************************)
BaseKeys == {"current_price", "current_value", "invested_amount", "absolute_return",
             "return_percentage", "units", "latest_date"}

\* the points of the given series dated at or before latest date - days
PointsUpTo(days) ==
    {j \in 1..Len(df.rows) :
        df.rows[j].date # NaT /\ df.rows[j].date <= Last(df.rows).date - days}

\* C11: for each trailing window W of 30, 90, 180, 365, 1095 days, if no point
\* of the series is dated at or before latest date - W then the result of
\* calculate_returns has no key for that period (no zero, no error) and the
\* rest of the result is still there, also when all five are missing.
C11_ShortHistoryOmitsPeriod ==
    (calc_pc # "ready" /\ Len(df.rows) >= 2 /\ Last(df.rows).date # NaT) =>
        /\ Returned
        /\ BaseKeys \subseteq DOMAIN returns
        /\ \A i \in 1..Len(Periods) :
              PointsUpTo(Periods[i].days) = {} =>
                  /\ Periods[i].ret \notin DOMAIN returns
                  /\ Periods[i].cagr \notin DOMAIN returns

\* reached: a result of a series shorter than 30 days, with none of the five
\* periods and all of the base fields
C11_Witness ==
    /\ Returned
    /\ Len(df.rows) >= 2
    /\ \A i \in 1..Len(Periods) : PointsUpTo(Periods[i].days) = {}
    /\ DOMAIN returns = BaseKeys
    /\ IsFin(returns.current_value)

\* C12: for each trailing window W for which some point is dated at or before
\* latest date - W, the period return is reported, and it is
\* (latest price - past price) / past price * 100 rounded to two decimals, where
\* past price is the price of a point of the latest date at or before
\* latest date - W (a past price of 0 gives what float arithmetic makes of
\* the quotient).
C12_PeriodReturnFromLatestPointBefore ==
    (Returned /\ Len(df.rows) >= 2) =>
        \A i \in 1..Len(Periods) :
            LET S == PointsUpTo(Periods[i].days)
            IN  S # {} =>
                  /\ Periods[i].ret \in DOMAIN returns
                  /\ \E j \in S :
                        /\ \A k \in S : df.rows[k].date <= df.rows[j].date
                        /\ LET q == df.rows[j].Close
                               r == returns[Periods[i].ret]
                               exact == FMul(FDiv(FSub(LastPrice, q), q), Hundred)
                           IN  r = Round2(exact)

\* reached: a one-year return taken over two older points of different dates
\* and prices
C12_Witness ==
    /\ Returned
    /\ Len(df.rows) >= 2
    /\ "return_1_year" \in DOMAIN returns
    /\ IsFin(returns.return_1_year)
    /\ \E j, k \in PointsUpTo(365) :
          /\ df.rows[j].date < df.rows[k].date
          /\ Positive(df.rows[j].Close)
          /\ Positive(df.rows[k].Close)
          /\ df.rows[j].Close # df.rows[k].Close

\* C13: in every result of calculate_returns a period has a CAGR entry exactly
\* when its window is at least 365 days (1_year, 3_years) and its period
\* return is present; 1_month, 3_months and 6_months never have one.
C13_CagrOnlyFromOneYear ==
    Returned =>
        /\ \A i \in 1..Len(Periods) :
              (Periods[i].cagr \in DOMAIN returns) <=>
                  (Periods[i].days >= 365 /\ Periods[i].ret \in DOMAIN returns)
        /\ {"cagr_1_month", "cagr_3_months", "cagr_6_months"} \cap DOMAIN returns = {}

\* reached: a result with the six-month and one-year returns, the one-year
\* CAGR, and no three-year entry
C13_Witness ==
    /\ Returned
    /\ {"return_6_months", "return_1_year", "cagr_1_year"} \subseteq DOMAIN returns
    /\ "return_3_years" \notin DOMAIN returns

(***************************************************************************)
(* Properties of calculate_risk_metrics and of repeated calculator calls   *)
(* (checked under SpecRisk).                                               *)
(***************************************************************************)
\* the last call made on df was calculate_risk_metrics, on a non-empty frame
RiskReported ==
    /\ Len(history) > 0
    /\ Last(history).op = "calculate_risk_metrics"
    /\ ~Last(history).exc
    /\ Len(df.rows) > 0

\* every price of the given series is positive: no price ratio divides by 0
PositivePrices == \A i \in 1..Len(df_given.rows) : Positive(df_given.rows[i].Close)

\* C14 as stated: for every non-empty price series given to
\* calculate_risk_metrics, 1-point and 2-point series included, the reported
\* max_drawdown is a defined number <= 0.  (Taken on the series of positive
\* prices.)
C14_DrawdownDefinedNonPositive ==
    (RiskReported /\ PositivePrices) =>
        /\ IsFin(risk_metrics.max_drawdown)
        /\ FLeq(risk_metrics.max_drawdown, Zero)

\* the prices of the given series never decrease from one point to the next
NonDecreasing ==
    \A i \in 1..(Len(df_given.rows) - 1) :
        FLeq(df_given.rows[i].Close, df_given.rows[i + 1].Close)

\* C15 as stated: for every price series whose prices never decrease from one
\* point to the next (a constant series included), calculate_risk_metrics
\* reports max_drawdown = 0.  (Taken on the series of positive prices; a
\* series of one point has no step at which the price decreases.)
C15_NonDecreasingHasNoDrawdown ==
    (RiskReported /\ PositivePrices /\ NonDecreasing) =>
        risk_metrics.max_drawdown = Zero

\* the daily percentage returns of the given series, point 2 onwards, that
\* are defined (a step from price 0 to price 0 has none)
GivenDailyReturns ==
    SelectSeq([i \in 1..(Len(df_given.rows) - 1) |->
                  FMul(FDiv(FSub(df_given.rows[i + 1].Close, df_given.rows[i].Close),
                            df_given.rows[i].Close), Hundred)],
              LAMBDA x : x.k # "nan")

\* C16: whenever the reported volatility is 0 or is not a positive number,
\* sharpe_ratio is exactly 0 (no quotient by the volatility is formed);
\* otherwise sharpe_ratio is (mean daily return * 252 - 6.0) / volatility,
\* rounded to two decimals, the mean taken over the defined daily returns.
C16_SharpeGuardedByVolatility ==
    RiskReported =>
        IF Positive(risk_metrics.volatility)
        THEN LET n == Len(GivenDailyReturns)
                 mean == FDiv(FSum(GivenDailyReturns, n), Rat(n, 1))
             IN  risk_metrics.sharpe_ratio =
                     Round2(FDiv(FSub(FMul(mean, Rat(252, 1)), Rat(6, 1)),
                                 risk_metrics.volatility))
        ELSE risk_metrics.sharpe_ratio = Zero

\* reached: a constant series of 3 points of positive price, with
\* volatility 0 and sharpe_ratio 0
C16_Witness ==
    /\ RiskReported
    /\ Len(df_given.rows) = 3
    /\ \A i \in 1..3 : df_given.rows[i].Close = Rat(100, 1)
    /\ risk_metrics.volatility = Zero
    /\ risk_metrics.sharpe_ratio = Zero

\* C17 as stated: for every non-empty series given to calculate_risk_metrics
\* the reported volatility is a defined number >= 0, also for series of 1 or
\* 2 points, whose daily returns are fewer than 2 observations.  (Taken on
\* the series of at least 2 points and positive prices.)
C17_VolatilityDefinedNonNegative ==
    (RiskReported /\ Len(df_given.rows) >= 2 /\ PositivePrices) =>
        /\ IsFin(risk_metrics.volatility)
        /\ FLeq(Zero, risk_metrics.volatility)

\* C18: running calculate_returns and calculate_risk_metrics again on the
\* same frame object and invested amount, in any order and any number of
\* times, gives each time the output of that calculator's first run.
C18_CalculatorsRepeatable ==
    \A i \in 1..Len(history), j \in 1..Len(history) :
        history[i].op = history[j].op =>
            /\ history[i].exc = history[j].exc
            /\ history[i].out = history[j].out

\* reached: calculate_risk_metrics run twice around a calculate_returns, on a
\* series of 3 points with both outputs non-empty
C18_Witness ==
    /\ Len(history) = 3
    /\ Len(df_given.rows) = 3
    /\ history[1].op = "calculate_risk_metrics"
    /\ history[2].op = "calculate_returns"
    /\ history[3].op = "calculate_risk_metrics"
    /\ history[2].out # EmptyDict
    /\ IsFin(history[3].out.volatility)
    /\ Positive(history[3].out.volatility)

\* C19 as stated: calculate_returns and calculate_risk_metrics leave the
\* series they are given unchanged: after either call it has the same points
\* and the same fields as before.
C19_SeriesUnchanged == df = df_given

(***************************************************************************)
(* Properties of analyze_instrument (checked under Spec).                  *)
(***************************************************************************)
ResolveOps == {"get_mf_details", "search_stock"}

\* C20: analyze_instrument resolves the identifier to metadata first; if the
\* resolution fails the call returns success = false at once, and for that
\* call neither the history fetch nor a calculator is invoked.
C20_ResolveBeforeFetch ==
    \A i \in 1..Len(calls) :
        Analyzed(calls[i]) =>
            LET c == calls[i]
            IN  /\ Len(c.trace) >= 1
                /\ c.trace[1] \in ResolveOps
                /\ c.response.resolve # "ok" =>
                      /\ Len(c.trace) = 1
                      /\ ~c.raised
                      /\ ~c.analysis.success
                      /\ c.analysis.returns = EmptyDict
                      /\ c.analysis.risk_metrics = EmptyDict

\* reached: one call whose resolution failed and stopped there, and one call
\* that went on to the fetch and both calculators
C20_Witness ==
    \E i, j \in 1..Len(calls) :
        /\ Analyzed(calls[i])
        /\ calls[i].response.resolve # "ok"
        /\ calls[i].trace \in {<<"get_mf_details">>, <<"search_stock">>}
        /\ ~calls[i].analysis.success
        /\ Analyzed(calls[j])
        /\ Len(calls[j].trace) = 4
        /\ calls[j].analysis.success

\* the methods a call of analyze_instrument went through end with both
\* calculators
RanBothCalculators(c) ==
    /\ Len(c.trace) >= 2
    /\ c.trace[Len(c.trace) - 1] = "calculate_returns"
    /\ c.trace[Len(c.trace)] = "calculate_risk_metrics"

\* C21: every result of analyze_instrument with success = false has empty
\* returns and empty risk_metrics, on every path to a failure (resolution
\* failure, empty series, an exception raised in the calculations); and
\* success = true only after both calculators have run.
C21_FailureHasEmptySubRecords ==
    \A i \in 1..Len(calls) :
        Analyzed(calls[i]) =>
            LET c == calls[i]
            IN  /\ ~c.analysis.success =>
                      /\ c.analysis.returns = EmptyDict
                      /\ c.analysis.risk_metrics = EmptyDict
                /\ c.analysis.success => RanBothCalculators(c)

\* reached: a call that failed in calculate_returns (the latest date of the
\* series is NaT) and a call that failed on an empty series, both with empty
\* sub-records
C21_Witness ==
    \E i, j \in 1..Len(calls) :
        /\ Analyzed(calls[i])
        /\ Len(calls[i].response.rows) >= 2
        /\ Last(calls[i].response.rows).date = NaT
        /\ Last(calls[i].trace) = "calculate_returns"
        /\ ~calls[i].analysis.success
        /\ calls[i].analysis.returns = EmptyDict
        /\ Analyzed(calls[j])
        /\ calls[j].response.resolve = "ok"
        /\ Len(calls[j].response.rows) = 0
        /\ ~calls[j].analysis.success
        /\ calls[j].analysis.risk_metrics = EmptyDict

(***************************************************************************)
(* More properties of the calculators (C24 under SpecRisk, C25 under       *)
(* SpecCalc).                                                              *)
(***************************************************************************)
\* the growth factor of the given series after its daily returns 1..i: the
\* product of 1 + daily_pct/100 over the steps from point 1 to point i + 1
RECURSIVE GrowthFactor(_)
GrowthFactor(i) ==
    IF i = 0 THEN Rat(1, 1)
    ELSE LET daily_pct ==
                 FMul(FDiv(FSub(df_given.rows[i + 1].Close, df_given.rows[i].Close),
                           df_given.rows[i].Close), Hundred)
         IN  FMul(GrowthFactor(i - 1), FAdd(Rat(1, 1), FDiv(daily_pct, Hundred)))

\* the peak of the growth factors 1..i, the factor 1 of the first price left out
PeakUpTo(i) ==
    CHOOSE m \in {GrowthFactor(k) : k \in 1..i} :
        \A k \in 1..i : FLeq(GrowthFactor(k), m)

\* the drawdown after daily return i, in percent
DrawdownAt(i) == FMul(FDiv(FSub(GrowthFactor(i), PeakUpTo(i)), PeakUpTo(i)), Hundred)

\* C24: max_drawdown is the least over i of (cum[i] - peak[i]) / peak[i] * 100
\* (rounded to two decimals), where cum starts with the growth factor after
\* the first daily return and peak[i] is the largest of cum up to i; the
\* first price is no peak candidate, so a series whose only price fall is
\* from its first point to its second has max_drawdown 0.  (On the series of
\* at least 2 points and positive prices, which have a first daily return.)
C24_DrawdownFromFirstReturn ==
    (RiskReported /\ Len(df_given.rows) >= 2 /\ PositivePrices) =>
        LET n == Len(df_given.rows) - 1
        IN  /\ \E i \in 1..n :
                  /\ risk_metrics.max_drawdown = Round2(DrawdownAt(i))
                  /\ \A k \in 1..n : FLeq(DrawdownAt(i), DrawdownAt(k))
            /\ (\A k \in 2..n : FLeq(df_given.rows[k].Close, df_given.rows[k + 1].Close))
                  => risk_metrics.max_drawdown = Zero

\* reached: a series that falls from its first point to its second and rises
\* after it, reported with max_drawdown 0
C24_Witness ==
    /\ RiskReported
    /\ Len(df_given.rows) = 3
    /\ df_given.rows[1].Close = Rat(200, 1)
    /\ df_given.rows[2].Close = Rat(50, 1)
    /\ df_given.rows[3].Close = Rat(100, 1)
    /\ risk_metrics.max_drawdown = Zero

\* C25: for every date-sorted series the periods present in the result of
\* calculate_returns are downward-closed in window length: a return for a
\* window comes with the return for every shorter window among 30, 90, 180,
\* 365 and 1095 days.
C25_PeriodsDownwardClosed ==
    Returned =>
        /\ "return_3_years" \in DOMAIN returns => "return_1_year" \in DOMAIN returns
        /\ "return_1_year" \in DOMAIN returns => "return_6_months" \in DOMAIN returns
        /\ "return_6_months" \in DOMAIN returns => "return_3_months" \in DOMAIN returns
        /\ "return_3_months" \in DOMAIN returns => "return_1_month" \in DOMAIN returns

\* reached: a history between 30 and 90 days long, with the one-month return
\* alone
C25_Witness ==
    /\ Returned
    /\ Len(df.rows) >= 2
    /\ "return_1_month" \in DOMAIN returns
    /\ "return_3_months" \notin DOMAIN returns
    /\ "return_1_year" \notin DOMAIN returns

(***************************************************************************)
(* Identifier selection against the provider branch (C27 under Spec).      *)
(***************************************************************************)
\* C27: for every holding the identifier field analyze_portfolio selects
\* (scheme_code for a mutual fund, symbol otherwise) is the one of the
\* provider branch analyze_instrument then takes for the holding's
\* instrument_type, case variants such as 'mutual fund' included: the
\* mutual-fund provider is asked exactly when scheme_code was selected.
C27_IdentifierMatchesBranch ==
    \A i \in 1..Len(calls) :
        Analyzed(calls[i]) =>
            LET investment == investments_df[i]
                selectedSchemeCode == investment.instrument_type = "Mutual Fund"
            IN  /\ selectedSchemeCode <=> calls[i].trace[1] = "get_mf_details"
                /\ ~selectedSchemeCode <=> calls[i].trace[1] = "search_stock"

(***************************************************************************)
(* SpecDb: the sessions of the application call create_user,               *)
(* add_investment, delete_investment and get_user_investments on the       *)
(* shared DatabaseManager.  create_user is followed statement by           *)
(* statement, because what it does depends on what another session         *)
(* commits between its SELECT and its INSERT; the other operations execute *)
(* one statement and are one step each.                                    *)
(***************************************************************************)
InitDb ==
    /\ IdlePortfolio
    /\ IdleCalc
    /\ IdleDb

\* the operations started so far
Started == Len(db_log) + Cardinality({s \in Sessions : session[s].pc # "idle"})

\* the entry of db_log for a create_user call that has returned
CreateUserReturned(s, ok, message, closed) ==
    [op |-> "create_user", session |-> s, arg |-> session[s].mobile,
     registered |-> session[s].registered, raced |-> session[s].raced,
     ok |-> ok, message |-> message,
     raised |-> FALSE, closed |-> closed,
     users_before |-> users, users_after |-> users',
     before |-> investments, after |-> investments',
     new_id |-> 0, result |-> << >>]

\* lines 60-62: a session enters create_user and opens its connection
CreateUserConnect(s, mobile) ==
    /\ session[s].pc = "idle"
    /\ Started < MaxOps
    /\ session' = [session EXCEPT ![s] =
                      [pc |-> "select", mobile |-> mobile,
                       registered |-> \E u \in users : u.mobile = mobile,
                       raced |-> FALSE]]
    /\ UNCHANGED <<users, investments, user_seq, investment_seq, now, write_lock,
                   unclosed, db_log>>
    /\ UNCHANGED <<portfolioVars, calcVars>>

\* lines 65-67: the existence check; a registered mobile returns at once,
\* without conn.close()
CreateUserSelect(s) ==
    /\ session[s].pc = "select"
    /\ UNCHANGED <<users, investments, user_seq, investment_seq, now, write_lock>>
    /\ UNCHANGED <<portfolioVars, calcVars>>
    /\ IF SelectMobile(users, session[s].mobile) # {}
       THEN /\ db_log' = Append(db_log,
                   CreateUserReturned(s, FALSE, "Mobile number already registered", FALSE))
            /\ unclosed' = unclosed + 1
            /\ session' = [session EXCEPT ![s] = IdleSession]
       ELSE /\ session' = [session EXCEPT
                               ![s].pc = "insert",
                               ![s].raced = \E t \in Sessions \ {s} :
                                               /\ session[t].pc = "insert"
                                               /\ session[t].mobile = session[s].mobile]
            /\ UNCHANGED <<unclosed, db_log>>

\* lines 69-72, the write lock being free: the INSERT opens a transaction and
\* takes the lock.  A mobile that a committed row has violates the UNIQUE
\* constraint of line 33: IntegrityError, caught at line 77, and line 78
\* returns with the connection, its transaction and the lock left as they are
CreateUserInsert(s) ==
    /\ session[s].pc = "insert"
    /\ write_lock = Free
    /\ UNCHANGED <<users, investments, user_seq, investment_seq, now>>
    /\ UNCHANGED <<portfolioVars, calcVars>>
    /\ IF UniqueViolated(users, session[s].mobile)
       THEN /\ db_log' = Append(db_log,
                   CreateUserReturned(s, FALSE,
                       "Error creating user: UNIQUE constraint failed: users.mobile", FALSE))
            /\ unclosed' = unclosed + 1
            /\ write_lock' = Abandoned
            /\ session' = [session EXCEPT ![s] = IdleSession]
       ELSE /\ write_lock' = s
            /\ session' = [session EXCEPT ![s].pc = "commit"]
            /\ UNCHANGED <<unclosed, db_log>>

\* lines 69-72, the write lock being held for longer than the busy timeout:
\* OperationalError, caught at line 77; line 78 returns, connection left open
CreateUserInsertLocked(s) ==
    /\ session[s].pc = "insert"
    /\ write_lock # Free
    /\ unclosed' = unclosed + 1
    /\ session' = [session EXCEPT ![s] = IdleSession]
    /\ UNCHANGED <<users, investments, user_seq, investment_seq, now, write_lock>>
    /\ UNCHANGED <<portfolioVars, calcVars>>
    /\ db_log' = Append(db_log,
           CreateUserReturned(s, FALSE, "Error creating user: database is locked", FALSE))

\* lines 74-76: commit makes the new row visible (its user_id is the next of
\* the AUTOINCREMENT sequence) and gives the lock back; close; success
CreateUserCommit(s) ==
    /\ session[s].pc = "commit"
    /\ users' = users \cup {[user_id |-> user_seq + 1, mobile |-> session[s].mobile]}
    /\ user_seq' = user_seq + 1
    /\ write_lock' = Free
    /\ session' = [session EXCEPT ![s] = IdleSession]
    /\ UNCHANGED <<investments, investment_seq, now, unclosed>>
    /\ UNCHANGED <<portfolioVars, calcVars>>
    /\ db_log' = Append(db_log,
           CreateUserReturned(s, TRUE, "User created successfully", TRUE))

\* the entry of db_log for a one-statement operation
Returned1(op, s, arg, ok, message, closed, new_id, result) ==
    [op |-> op, session |-> s, arg |-> arg, registered |-> FALSE, raced |-> FALSE,
     ok |-> ok,
     message |-> message, raised |-> FALSE, closed |-> closed,
     users_before |-> users, users_after |-> users',
     before |-> investments, after |-> investments',
     new_id |-> new_id, result |-> result]

\* add_investment, lines 107-123: INSERT (investment_id from the
\* AUTOINCREMENT sequence, date_added the current second; user_id is not
\* checked against users), commit, close, success
AddInvestment(s, user_id) ==
    /\ session[s].pc = "idle"
    /\ Started < MaxOps
    /\ write_lock = Free
    /\ now' \in {now, now + 1}
    /\ investments' = investments \cup
           {[investment_id |-> investment_seq + 1, user_id |-> user_id,
             date_added |-> now']}
    /\ investment_seq' = investment_seq + 1
    /\ UNCHANGED <<users, user_seq, session, write_lock, unclosed>>
    /\ UNCHANGED <<portfolioVars, calcVars>>
    /\ db_log' = Append(db_log,
           Returned1("add_investment", s, user_id, TRUE,
                     "Investment added successfully", TRUE, investment_seq + 1, << >>))

\* add_investment, the write lock being held for longer than the busy
\* timeout: OperationalError at line 115, caught at line 124; line 125
\* returns, connection left open
AddInvestmentLocked(s, user_id) ==
    /\ session[s].pc = "idle"
    /\ Started < MaxOps
    /\ write_lock # Free
    /\ unclosed' = unclosed + 1
    /\ UNCHANGED <<users, investments, user_seq, investment_seq, now, session,
                   write_lock>>
    /\ UNCHANGED <<portfolioVars, calcVars>>
    /\ db_log' = Append(db_log,
           Returned1("add_investment", s, user_id, FALSE,
                     "Error adding investment: database is locked", FALSE, 0, << >>))

\* delete_investment, lines 173-183: DELETE, commit, close, success, whether
\* or not a row had the id
DeleteInvestment(s, investment_id) ==
    /\ session[s].pc = "idle"
    /\ Started < MaxOps
    /\ write_lock = Free
    /\ investments' = DeleteRow(investments, investment_id)
    /\ UNCHANGED <<users, user_seq, investment_seq, now, session, write_lock, unclosed>>
    /\ UNCHANGED <<portfolioVars, calcVars>>
    /\ db_log' = Append(db_log,
           Returned1("delete_investment", s, investment_id, TRUE,
                     "Investment deleted successfully", TRUE, 0, << >>))

\* delete_investment, the write lock being held for longer than the busy
\* timeout: OperationalError at line 179, caught at line 184; line 185
\* returns, connection left open
DeleteInvestmentLocked(s, investment_id) ==
    /\ session[s].pc = "idle"
    /\ Started < MaxOps
    /\ write_lock # Free
    /\ unclosed' = unclosed + 1
    /\ UNCHANGED <<users, investments, user_seq, investment_seq, now, session,
                   write_lock>>
    /\ UNCHANGED <<portfolioVars, calcVars>>
    /\ db_log' = Append(db_log,
           Returned1("delete_investment", s, investment_id, FALSE,
                     "Error deleting investment: database is locked", FALSE, 0, << >>))

\* get_user_investments, lines 127-140: the SELECT reads the committed rows
\* (a held write lock does not keep readers out), close, the frame
GetUserInvestments(s, user_id) ==
    /\ session[s].pc = "idle"
    /\ Started < MaxOps
    /\ UNCHANGED <<users, investments, user_seq, investment_seq, now, session,
                   write_lock, unclosed>>
    /\ UNCHANGED <<portfolioVars, calcVars>>
    /\ db_log' = Append(db_log,
           Returned1("get_user_investments", s, user_id, TRUE, "", TRUE, 0,
                     get_user_investments(investments, user_id)))

\* the interpreter finalises a connection object that a returned operation
\* left open: the connection is closed, and its open transaction, if it has
\* one, is rolled back and gives the write lock back
Finalize ==
    /\ unclosed > 0
    /\ unclosed' = unclosed - 1
    /\ \/ /\ write_lock = Abandoned
          /\ write_lock' = Free
       \/ /\ write_lock # Abandoned \/ unclosed > 1
          /\ UNCHANGED write_lock
    /\ UNCHANGED <<users, investments, user_seq, investment_seq, now, session, db_log>>
    /\ UNCHANGED <<portfolioVars, calcVars>>

NextDb ==
    \/ \E s \in Sessions, mobile \in Mobiles : CreateUserConnect(s, mobile)
    \/ \E s \in Sessions : CreateUserSelect(s)
    \/ \E s \in Sessions : CreateUserInsert(s)
    \/ \E s \in Sessions : CreateUserInsertLocked(s)
    \/ \E s \in Sessions : CreateUserCommit(s)
    \/ \E s \in Sessions, user_id \in UserIds : AddInvestment(s, user_id)
    \/ \E s \in Sessions, user_id \in UserIds : AddInvestmentLocked(s, user_id)
    \/ \E s \in Sessions, investment_id \in InvestmentIds : DeleteInvestment(s, investment_id)
    \/ \E s \in Sessions, investment_id \in InvestmentIds :
          DeleteInvestmentLocked(s, investment_id)
    \/ \E s \in Sessions, user_id \in UserIds : GetUserInvestments(s, user_id)
    \/ Finalize

SpecDb == InitDb /\ [][NextDb]_vars

(***************************************************************************)
(* Properties of the store (under SpecDb).                                 *)
(***************************************************************************)
CreateUserCalls == {k \in 1..Len(db_log) : db_log[k].op = "create_user"}
DeleteCalls == {k \in 1..Len(db_log) : db_log[k].op = "delete_investment"}
AllIdle == \A s \in Sessions : session[s].pc = "idle"

\* C22: after any sequence of create_user calls no two stored users share a
\* mobile number; create_user with a mobile that is registered when the call
\* begins returns (False, "Mobile number already registered") and leaves the
\* users table unchanged, the one row with that mobile included.
C22_MobilesUnique ==
    /\ \A u1, u2 \in users : u1.mobile = u2.mobile => u1 = u2
    /\ \A k \in CreateUserCalls :
          db_log[k].registered =>
              /\ ~db_log[k].ok
              /\ db_log[k].message = "Mobile number already registered"
              /\ db_log[k].users_after = db_log[k].users_before
              /\ Cardinality({u \in db_log[k].users_after : u.mobile = db_log[k].arg}) = 1

\* reached: a create_user that succeeded, and a later one with the same
\* mobile that was turned down
C22_Witness ==
    \E i, j \in CreateUserCalls :
        /\ i < j
        /\ db_log[i].arg = db_log[j].arg
        /\ db_log[i].ok
        /\ db_log[j].registered
        /\ ~db_log[j].ok
        /\ Cardinality(users) = 1

\* C23: delete_investment called with an investment_id for which no row
\* exists is reported as a store error: (False, message), the store unchanged.
C23_MissingRowReported ==
    \A k \in DeleteCalls :
        (\A r \in db_log[k].before : r.investment_id # db_log[k].arg) =>
            /\ ~db_log[k].ok
            /\ db_log[k].after = db_log[k].before
            /\ db_log[k].users_after = db_log[k].users_before

\* C26: under any interleaving of two concurrent create_user calls with the
\* same mobile number (both past the existence check before either inserts)
\* at most one call returns success, at most one user row with that mobile
\* exists afterwards, and the other call returns (False, message) and does
\* not raise.
C26_ConcurrentCreateOneWinner ==
    /\ \A i, j \in CreateUserCalls :
          (i # j /\ db_log[i].arg = db_log[j].arg) => ~(db_log[i].ok /\ db_log[j].ok)
    /\ \A k \in CreateUserCalls :
          /\ ~db_log[k].raised
          /\ db_log[k].ok \in BOOLEAN
          /\ db_log[k].raced =>
                Cardinality({u \in db_log[k].users_after : u.mobile = db_log[k].arg}) <= 1
    /\ \A mobile \in Mobiles : Cardinality({u \in users : u.mobile = mobile}) <= 1

\* reached: two calls with one mobile, both past the check before either
\* inserted; one succeeded, the other failed on the UNIQUE constraint
C26_Witness ==
    \E i, j \in CreateUserCalls :
        /\ i < j
        /\ db_log[i].arg = db_log[j].arg
        /\ db_log[i].session # db_log[j].session
        /\ db_log[i].raced \/ db_log[j].raced
        /\ ~db_log[i].registered /\ ~db_log[j].registered
        /\ db_log[i].ok
        /\ ~db_log[j].ok
        /\ db_log[j].message = "Error creating user: UNIQUE constraint failed: users.mobile"
        /\ Cardinality({u \in users : u.mobile = db_log[i].arg}) = 1

\* C28: delete_investment(id) removes exactly the investment row with that
\* investment_id and leaves every other investment row and every user row
\* unchanged; hence add_investment followed by delete_investment of the new
\* row's id restores each user's get_user_investments result.
C28_DeleteRemovesExactlyThatRow ==
    /\ \A k \in DeleteCalls :
          /\ db_log[k].users_after = db_log[k].users_before
          /\ \A r \in db_log[k].before :
                r.investment_id # db_log[k].arg => r \in db_log[k].after
          /\ db_log[k].after \subseteq db_log[k].before
          /\ db_log[k].ok => \A r \in db_log[k].after : r.investment_id # db_log[k].arg
    /\ \A k \in DeleteCalls :
          (/\ k > 1
           /\ db_log[k].ok
           /\ db_log[k - 1].op = "add_investment"
           /\ db_log[k - 1].ok
           /\ db_log[k - 1].new_id = db_log[k].arg) =>
              \A user_id \in UserIds :
                  get_user_investments(db_log[k].after, user_id) =
                      get_user_investments(db_log[k - 1].before, user_id)

\* reached: a user with two investments, the second added and then deleted
C28_Witness ==
    \E k \in DeleteCalls :
        /\ k > 1
        /\ db_log[k].ok
        /\ db_log[k - 1].op = "add_investment"
        /\ db_log[k - 1].ok
        /\ db_log[k - 1].new_id = db_log[k].arg
        /\ Cardinality(db_log[k].before) = 2
        /\ Cardinality(db_log[k].after) = 1
        /\ \A r \in db_log[k].before : r.user_id = db_log[k - 1].arg

\* C29: every operation closes the connection it opened before it returns,
\* on every path, the duplicate-mobile early return of create_user and the
\* exception paths included; after any sequence of operations no connection
\* remains open.
C29_ConnectionsClosed ==
    /\ \A k \in 1..Len(db_log) : db_log[k].closed
    /\ AllIdle => unclosed = 0

====
